---------------------------- MODULE Spec2Model ----------------------------
(***************************************************************************)
(* LEGO 3D printer: the G-code line interpreter (gcode_handler.py), the    *)
(* printer's extruder and motion controller (printer.py) and the per-line  *)
(* job loop (main.py).                                                     *)
(*                                                                         *)
(* Lengths are integers in hundredths of a millimetre (0.1 mm = 10), E     *)
(* values in hundredths of their unit; motor angles are whole degrees.     *)
(***************************************************************************)
EXTENDS Integers, Sequences, FiniteSets, TLC

VARIABLES
    last_e_value,   \* GCodeProcessor.last_e_value, the extrusion watermark
    scan,           \* the line last given to parse_line, as read by ReadLine
    parsed_output,  \* what parse_line returned for it
    prev_e,         \* the watermark when that call was made
    before,         \* the line given before that one: a G92 writing E?
    seen_e,         \* highest E written on G0/G1/G92 lines since the last G92 E
    high_e,         \* highest of the baseline and the E read since it was set
    pc,             \* position of the running program
    remaining,      \* lines of the file not yet taken by the job loop
    current_x, current_y, current_z,   \* the job loop's believed position
    extruding,      \* Printer.extruding
    e_motor,        \* where the extruder motor rests: "pressed" or "released"
    x_motor, y_motor,   \* [target, angle, done] of the X and the Y motor
    z_motor,        \* angle of the Z motor
    trace,          \* the motor commands given for the line in progress
    center_seen,    \* the buttons read by the last check that saw the centre
    homing          \* Printer.home in progress: its place, motors and sensors
                    \* button since a line was taken; {} if none did

procVars == <<last_e_value, scan, parsed_output, prev_e>>

ghostVars == <<before, seen_e, high_e>>

jobVars ==
    <<remaining, current_x, current_y, current_z, extruding, e_motor,
      x_motor, y_motor, z_motor, trace, center_seen,
                   homing>>

vars == <<procVars, ghostVars, pc, jobVars>>

----------------------------------------------------------------------------
(* Bounds of the input.                                                    *)

\* the words following the command word on one line
MaxParams == 2

\* the lines of the printed file
MaxLines == 3

----------------------------------------------------------------------------
(* Text of a line.  A word is its first character h and the rest t; a line *)
(* is its whitespace-separated words and the index cut of the word that    *)
(* the first ';' precedes (Len + 1: the comment, if any, follows the last  *)
(* word).                                                                  *)

CmdWords ==
    { <<"G", "0">>, <<"G", "1">>, <<"g", "1">>, <<"G", "92">>, <<"M", "104">> }

ParamWords ==
    { <<"X", "3">>, <<"X", "foo">>, <<"x", "3">>, <<"Y", "5">>, <<"Y", "">>,
      <<"Z", "0.1">>, <<"Z", "2">>, <<"E", "-1">>, <<"E", "1">>, <<"E", "2">>,
      <<"*", "71">> }

WordSeqs ==
    UNION { [1..n -> ParamWords] : n \in 0..MaxParams }

Lines ==
    { [words |-> <<>>, cut |-> 1] }
    \cup { [words |-> <<c>> \o ps, cut |-> k] :
             c \in CmdWords, ps \in WordSeqs, k \in 1..(MaxParams + 2) }

\* str.upper() on one character
Upper(ch) ==
    CASE ch = "g" -> "G"
      [] ch = "x" -> "X"
      [] OTHER -> ch

\* 'A' <= param_code <= 'Z'
IsLetter(ch) == ch \in {"G", "M", "X", "Y", "Z", "E"}

\* the texts float() accepts; on any other it raises ValueError
IsNumber(text) == text \in {"0.1", "1", "2", "3", "5", "-1"}

\* float(text) of a text it accepts, in hundredths
ParseFloat(text) ==
    CASE text = "0.1" -> 10
      [] text = "1" -> 100
      [] text = "2" -> 200
      [] text = "3" -> 300
      [] text = "5" -> 500
      [] text = "-1" -> -100

\* the words of the whole line, the comment's among them
CleanedParts_WithComment(line) == line.words

\* gcode_line.split(';', 1)[0].strip().split()
CleanedParts(line) ==
    SubSeq(line.words, 1, IF line.cut - 1 < Len(line.words)
                             THEN line.cut - 1 ELSE Len(line.words))

EmptyDict == [k \in {} |-> 0]

\* raw_params[key] = value
DictSet(d, key, value) ==
    [k \in DOMAIN d \cup {key} |-> IF k = key THEN value ELSE d[k]]

\* the ValueError of float() not caught
CatchValueError_Missing(raw) ==
    [raw_params |-> raw, warnings |-> 0, raised |-> TRUE]

\* except ValueError: one warning, and parse_line goes on after the loop
CatchValueError(raw) == [raw_params |-> raw, warnings |-> 1, raised |-> FALSE]

\* The for loop over parts[1:], inside one try: a ValueError leaves the loop.
RECURSIVE ParseParts(_, _, _)
ParseParts(parts, i, raw) ==
    IF i > Len(parts) THEN [raw_params |-> raw, warnings |-> 0, raised |-> FALSE]
    ELSE LET part == parts[i]
             param_code == Upper(part[1])
         IN  IF part[2] /= "" /\ IsLetter(param_code)
             THEN IF ~IsNumber(part[2])
                  THEN CatchValueError(raw)
                  ELSE ParseParts(parts, i + 1,
                                  DictSet(raw, param_code, ParseFloat(part[2])))
             ELSE ParseParts(parts, i + 1, raw)

\* parse_line up to the dispatch on the command
Tokenize(line) ==
    LET parts == CleanedParts(line)
    IN  IF parts = <<>>
        THEN [blank |-> TRUE, command |-> <<"", "">>,
              raw_params |-> EmptyDict, warnings |-> 0, raised |-> FALSE]
        ELSE LET r == ParseParts(parts, 2, EmptyDict)
             IN  [blank |-> FALSE,
                  command |-> <<Upper(parts[1][1]), parts[1][2]>>,
                  raw_params |-> r.raw_params, warnings |-> r.warnings,
                  raised |-> r.raised]

NoOutput == [some |-> FALSE, command |-> <<"", "">>, extruding |-> FALSE,
             axes |-> EmptyDict]

\* parsed_data of a G0/G1 line
MoveOutput(tok, w) ==
    [some |-> TRUE, command |-> tok.command,
     extruding |-> "E" \in DOMAIN tok.raw_params /\ tok.raw_params["E"] > w,
     axes |-> [a \in DOMAIN tok.raw_params \cap {"X", "Y", "Z"} |->
                 tok.raw_params[a]]]

\* G92 held to the rule of G0/G1: the watermark only rises
G92Watermark_OnlyUp(tok, w) ==
    IF "E" \in DOMAIN tok.raw_params /\ tok.raw_params["E"] > w
    THEN tok.raw_params["E"] ELSE w

\* the G92 branch: the watermark after it
G92Watermark(tok, w) ==
    IF "E" \in DOMAIN tok.raw_params THEN tok.raw_params["E"] ELSE w

\* parse_line from the dispatch on: the returned value, the new watermark,
\* and whether an exception left the call
parse_line(tok, w) ==
    IF tok.raised THEN [out |-> NoOutput, last_e |-> w, raised |-> TRUE]
    ELSE IF tok.blank THEN [out |-> NoOutput, last_e |-> w, raised |-> FALSE]
    ELSE IF tok.command \in { <<"G", "0">>, <<"G", "1">> }
    THEN LET out == MoveOutput(tok, w)
         IN  [out |-> out,
              last_e |-> IF out.extruding THEN tok.raw_params["E"] ELSE w,
              raised |-> FALSE]
    ELSE IF tok.command = <<"G", "92">>
    THEN [out |-> NoOutput, last_e |-> G92Watermark(tok, w), raised |-> FALSE]
    ELSE [out |-> NoOutput, last_e |-> w, raised |-> FALSE]

----------------------------------------------------------------------------
(* The line as written: what a reader of the text sees on it, without      *)
(* following parse_line.                                                   *)

\* indices of the parameter words outside the comment
ParamIdx(line) == { i \in 2..Len(line.words) : i < line.cut }

WellFormed(word) ==
    word[2] /= "" /\ IsLetter(Upper(word[1])) /\ IsNumber(word[2])

Malformed(word) ==
    word[2] /= "" /\ IsLetter(Upper(word[1])) /\ ~IsNumber(word[2])

SetMax(S) == CHOOSE m \in S : \A n \in S : n <= m

SetMin(S) == CHOOSE m \in S : \A n \in S : m <= n

\* the well-formed parameters written on the line (the last one of a letter)
WrittenParams(line, idx) ==
    LET at(c) == { i \in idx : WellFormed(line.words[i])
                               /\ Upper(line.words[i][1]) = c }
    IN  [c \in { c \in {"X", "Y", "Z", "E"} : at(c) /= {} } |->
           ParseFloat(line.words[SetMax(at(c))][2])]

\* the parameter words before the first malformed one
BeforeBad(line) ==
    LET bad == { i \in ParamIdx(line) : Malformed(line.words[i]) }
    IN  IF bad = {} THEN ParamIdx(line)
        ELSE { i \in ParamIdx(line) : i < SetMin(bad) }

\* the line without its comment
Uncommented(line) ==
    LET kept == SubSeq(line.words, 1, SetMin({line.cut - 1, Len(line.words)}))
    IN  [words |-> kept, cut |-> Len(kept) + 1]

ReadLine(line) ==
    [tok |-> Tokenize(line),
     plain |-> Tokenize(Uncommented(line)),
     commented |-> Len(line.words) > Len(Uncommented(line).words),
     blank |-> line.cut = 1 \/ line.words = <<>>,
     written |-> WrittenParams(line, ParamIdx(line)),
     readable |-> WrittenParams(line, BeforeBad(line)),
     bad |-> Cardinality({ i \in ParamIdx(line) : Malformed(line.words[i]) })]

Scanned == { ReadLine(l) : l \in Lines }

----------------------------------------------------------------------------
(* A GCodeProcessor fed one line after another.                            *)

NoScan == ReadLine([words |-> <<>>, cut |-> 1])

NoG92 == [g92 |-> FALSE, e |-> 0]

AtRest == [target |-> 0, angle |-> 0, done |-> TRUE]

\* Printer.home is not running
NotHoming == [at |-> 0]

\* the printer and the job before anything has run
JobIdle ==
    /\ remaining = MaxLines
    /\ current_x = 0 /\ current_y = 0 /\ current_z = 0
    /\ extruding = FALSE
    /\ e_motor = "released"
    /\ x_motor = AtRest /\ y_motor = AtRest
    /\ z_motor = 0
    /\ trace = <<>>
    /\ center_seen = {}
    /\ homing = NotHoming

InitParse ==
    /\ last_e_value = 0
    /\ scan = NoScan
    /\ parsed_output = NoOutput
    /\ prev_e = 0
    /\ before = NoG92
    /\ seen_e = [any |-> FALSE, max |-> 0]
    /\ high_e = 0
    /\ pc = "feed"
    /\ JobIdle

IsMoveCmd(s) == ~s.blank /\ s.tok.command \in { <<"G", "0">>, <<"G", "1">> }

IsG92(s) == ~s.blank /\ s.tok.command = <<"G", "92">>

Larger(a, b) == IF a > b THEN a ELSE b

\* highest E the interpreter has seen on G0/G1/G92 lines since the last G92
\* with E (an E behind a malformed parameter is not seen)
SeenAfter(s, seen) ==
    IF (IsMoveCmd(s) \/ IsG92(s)) /\ "E" \in DOMAIN s.readable
    THEN IF IsG92(s) \/ ~seen.any THEN [any |-> TRUE, max |-> s.readable["E"]]
         ELSE [any |-> TRUE, max |-> Larger(seen.max, s.readable["E"])]
    ELSE seen

\* highest of the baseline (0.0, or the E of the last G92 read) and the E
\* read on G0/G1 lines since
HighAfter(s, high) ==
    IF "E" \notin DOMAIN s.readable THEN high
    ELSE IF IsG92(s) THEN s.readable["E"]
    ELSE IF IsMoveCmd(s) THEN Larger(high, s.readable["E"])
    ELSE high

\* what the next call will find before it
BeforeAfter(s) ==
    IF IsG92(s) /\ "E" \in DOMAIN s.written
    THEN [g92 |-> TRUE, e |-> s.written["E"]] ELSE NoG92

\* one call of parse_line, and the record of it
Parsed(s) ==
    LET r == parse_line(s.tok, last_e_value)
    IN  /\ scan' = s
        /\ parsed_output' = r.out
        /\ prev_e' = last_e_value
        /\ last_e_value' = r.last_e

Feed ==
    /\ pc = "feed"
    /\ \E s \in Scanned :
         /\ Parsed(s)
         /\ seen_e' = SeenAfter(s, seen_e)
         /\ high_e' = HighAfter(s, high_e)
         /\ pc' = IF parse_line(s.tok, last_e_value).raised
                  THEN "raised" ELSE "fed"
    /\ UNCHANGED <<before, jobVars>>

\* the caller is done with the returned value
Return ==
    /\ pc = "fed"
    /\ pc' = "feed"
    /\ scan' = NoScan
    /\ parsed_output' = NoOutput
    /\ prev_e' = last_e_value
    /\ before' = BeforeAfter(scan)
    /\ UNCHANGED <<last_e_value, seen_e, high_e, jobVars>>

NextParse == Feed \/ Return

SpecParse == InitParse /\ [][NextParse]_vars

----------------------------------------------------------------------------
(* The printer.                                                            *)

xy_speed == 90

max_xy_speed_multiplier == 3

\* self.y_limit / self.y_mm_per_degree = 141 * 45 / 4, in whole degrees
y_limit_degrees == 1586

\* self.z_limit / self.z_mm_per_degree = 152 * 45 / 8
z_limit_degrees == 855

\* 10 / self.z_mm_per_degree, in whole degrees
ZLift == 56

Abs(n) == IF n < 0 THEN -n ELSE n

\* int(a / b) for b > 0: the quotient cut towards zero
TruncDiv(a, b) == IF a >= 0 THEN a \div b ELSE -((-a) \div b)

\* int(x / self.x_mm_per_degree), x in hundredths of a millimetre, 4/45 mm
\* to the degree (the same for Y)
XYDegrees(h) == TruncDiv(h * 45, 400)

\* int(z / self.z_mm_per_degree), 8/45 mm to the degree
ZDegrees(h) == TruncDiv(h * 45, 800)

\* the velocity without the tests for a small distance
calculate_velocity_components_NoDeadZone(cx, cy, tx, ty, target_speed) ==
    [nx |-> (tx - cx) * target_speed, ny |-> (ty - cy) * target_speed,
     d2 |-> IF tx = cx /\ ty = cy THEN 1
            ELSE (tx - cx) * (tx - cx) + (ty - cy) * (ty - cy)]

\* _calculate_velocity_components: (vx, vy) = (nx, ny) / sqrt(d2), kept as
\* the numerators and the squared denominator; (0, 0) is nx = ny = 0
calculate_velocity_components(cx, cy, tx, ty, target_speed) ==
    LET dx == tx - cx
        dy == ty - cy
        dist2 == dx * dx + dy * dy
    IN  IF dist2 < 25 THEN [nx |-> 0, ny |-> 0, d2 |-> 1]
        ELSE [nx |-> IF Abs(dx) < 5 THEN 0 ELSE dx * target_speed,
              ny |-> IF Abs(dy) < 5 THEN 0 ELSE dy * target_speed,
              d2 |-> dist2]

\* the largest r in lo..hi with r * r <= m
RECURSIVE RootIn(_, _, _)
RootIn(m, lo, hi) ==
    IF lo = hi THEN lo
    ELSE LET mid == (lo + hi + 1) \div 2
         IN  IF mid * mid <= m THEN RootIn(m, mid, hi)
             ELSE RootIn(m, lo, mid - 1)

\* the whole part of sqrt(m)
Isqrt(m) == RootIn(m, 0, 4096)

\* abs(speed) > 2 for the component n / sqrt(d2): n * n > 4 * d2
Over2(n, d2) == Abs(n) > Isqrt(4 * d2)

\* a command given to a motor, whether X or Y was still running then, and
\* whether the motor it is given to was
Cmd(op, xm, ym) ==
    [op |-> op, xy_running |-> ~(xm.done /\ ym.done),
     running |-> (op = "X" /\ ~xm.done) \/ (op = "Y" /\ ~ym.done)]

\* the printer as the operators below pass it on
ThePrinter ==
    [extruding |-> extruding, e_motor |-> e_motor, x_motor |-> x_motor,
     y_motor |-> y_motor, z_motor |-> z_motor, trace |-> trace]

\* _start_extruding: against the pen's button until stalled, hold, wait(450)
start_extruding(P) ==
    [P EXCEPT !.e_motor = "pressed",
              !.trace = Append(@, Cmd("engage", P.x_motor, P.y_motor))]

\* _stop_extruding: away from the button until stalled, brake
stop_extruding(P) ==
    [P EXCEPT !.e_motor = "released",
              !.trace = Append(@, Cmd("disengage", P.x_motor, P.y_motor))]

\* extrude without the test of the state it is in
extrude_Unguarded(P, want) ==
    IF want THEN start_extruding([P EXCEPT !.extruding = TRUE])
    ELSE stop_extruding([P EXCEPT !.extruding = FALSE])

\* Printer.extrude
extrude(P, want) ==
    IF want /\ ~P.extruding
    THEN start_extruding([P EXCEPT !.extruding = TRUE])
    ELSE IF ~want /\ P.extruding
    THEN stop_extruding([P EXCEPT !.extruding = FALSE])
    ELSE P

\* z_motor.run_target(self.z_speed, z, then=Stop.BRAKE, wait=True)
ZRunTarget(P, z) ==
    [P EXCEPT !.z_motor = z,
              !.trace = Append(@, Cmd("Z", P.x_motor, P.y_motor))]

\* the test that sends Z up before the XY move: z is in degrees by then,
\* prev_z still in millimetres
RaisesZ(z_deg, prev_z) == z_deg * 100 > prev_z

\* the test that sends Z down after the XY move
LowersZ(z_deg, prev_z) == z_deg * 100 < prev_z

\* Printer.move up to the wait for the X and Y motors
MoveBegin(P, z, prev_z) ==
    IF RaisesZ(ZDegrees(z), prev_z) THEN ZRunTarget(P, ZDegrees(z)) ELSE P

\* the X command at any speed other than 0
XRun_AnySpeed(P, v, x) ==
    IF v.nx /= 0 /\ Abs(P.x_motor.angle - x) > 2
    THEN [P EXCEPT !.x_motor = [target |-> x, angle |-> @.angle, done |-> FALSE],
                   !.trace = Append(@, Cmd("X", P.x_motor, P.y_motor))]
    ELSE P

\* x_motor.run_target(x_speed, x, then=Stop.HOLD, wait=False) when the
\* move is significant
XRun(P, v, x) ==
    IF Over2(v.nx, v.d2) /\ Abs(P.x_motor.angle - x) > 2
    THEN [P EXCEPT !.x_motor = [target |-> x, angle |-> @.angle, done |-> FALSE],
                   !.trace = Append(@, Cmd("X", P.x_motor, P.y_motor))]
    ELSE P

YRun(P, v, y) ==
    IF Over2(v.ny, v.d2) /\ Abs(P.y_motor.angle - y) > 2
    THEN [P EXCEPT !.y_motor = [target |-> y, angle |-> @.angle, done |-> FALSE],
                   !.trace = Append(@, Cmd("Y", P.x_motor, P.y_motor))]
    ELSE P

\* G0 at the speed of G1
MoveVelocity_SameSpeed(x, y, prev_x, prev_y, command) ==
    calculate_velocity_components(prev_x, prev_y, x, y, xy_speed)

\* x_speed, y_speed of move(): at xy_speed for G1, at xy_speed times
\* max_xy_speed_multiplier for G0
MoveVelocity(x, y, prev_x, prev_y, command) ==
    calculate_velocity_components(
        prev_x, prev_y, x, y,
        IF command = <<"G", "1">> THEN xy_speed
        ELSE xy_speed * max_xy_speed_multiplier)

\* Printer.move after the wait for the X and Y motors
MoveEnd(P, x, y, z, prev_x, prev_y, prev_z, command) ==
    LET v == MoveVelocity(x, y, prev_x, prev_y, command)
        P1 == XRun(P, v, XYDegrees(x))
        P2 == YRun(P1, v, XYDegrees(y))
    IN  IF LowersZ(ZDegrees(z), prev_z) THEN ZRunTarget(P2, ZDegrees(z)) ELSE P2

\* the printer after an operation
Becomes(P) ==
    /\ extruding' = P.extruding
    /\ e_motor' = P.e_motor
    /\ x_motor' = P.x_motor
    /\ y_motor' = P.y_motor
    /\ z_motor' = P.z_motor
    /\ trace' = P.trace

----------------------------------------------------------------------------
(* The job: main.py from prime_extruder on.                                *)

Init ==
    /\ last_e_value = 0
    /\ scan = NoScan
    /\ parsed_output = NoOutput
    /\ prev_e = 0
    /\ before = NoG92
    /\ seen_e = [any |-> FALSE, max |-> 0]
    /\ high_e = 0
    /\ pc = "prime"
    /\ remaining = MaxLines
    /\ current_x = 0 /\ current_y = 0 /\ current_z = 0
    /\ extruding = FALSE
    /\ e_motor \in {"pressed", "released"}
    /\ x_motor = AtRest /\ y_motor = AtRest
    /\ z_motor = 0
    /\ trace = <<>>
    /\ center_seen = {}
    /\ homing = NotHoming

\* RIGHT presses the pen's button and leaves it pressed
PrimeExtruder_LeftOn ==
    /\ pc = "prime"
    /\ \E right \in BOOLEAN :
         Becomes([(IF right THEN start_extruding(ThePrinter)
                   ELSE stop_extruding(ThePrinter)) EXCEPT !.trace = <<>>])
    /\ pc' = "home"
    /\ UNCHANGED <<procVars, ghostVars, remaining, current_x, current_y,
                   current_z, center_seen, homing>>

\* prime_extruder: RIGHT presses the pen's button once, any other button
\* only makes sure it is released
PrimeExtruder ==
    /\ pc = "prime"
    /\ \E right \in BOOLEAN :
         Becomes([(IF right THEN stop_extruding(start_extruding(ThePrinter))
                   ELSE stop_extruding(ThePrinter)) EXCEPT !.trace = <<>>])
    /\ pc' = "home"
    /\ UNCHANGED <<procVars, ghostVars, remaining, current_x, current_y,
                   current_z, center_seen,
                   homing>>

\* home: every axis ends held at its new zero
Home ==
    /\ pc = "home"
    /\ x_motor' = AtRest /\ y_motor' = AtRest /\ z_motor' = 0
    /\ current_x' = 0 /\ current_y' = 0 /\ current_z' = 0
    /\ pc' = "loop"
    /\ UNCHANGED <<procVars, ghostVars, remaining, extruding, e_motor, trace,
                   center_seen,
                   homing>>

\* parsed_output.get(axis, current)
Target(out, axis, current) ==
    IF axis \in DOMAIN out.axes THEN out.axes[axis] ELSE current

\* what ev3.buttons.pressed() can return: no button, the centre button,
\* another button, the centre button with another
ButtonReads == { {}, {"CENTER"}, {"LEFT"}, {"CENTER", "LEFT"} }

\* printer.ev3.buttons.pressed() == [Button.CENTER], the test at the head of
\* the loop
StopPressed(buttons) == buttons = {"CENTER"}

\* Button.CENTER in self.ev3.buttons.pressed(), the test in the wait of
\* move()
CenterPressed(buttons) == "CENTER" \in buttons

\* move() before extrude(True)
ExecuteBegin_MoveFirst(P, out, prev_z) ==
    LET P1 == MoveBegin(P, Target(out, "Z", prev_z), prev_z)
    IN  IF out.extruding THEN extrude(P1, TRUE) ELSE P1

\* a command is executed: extrude(True) if it extrudes, then move() up to
\* its wait
ExecuteBegin(P, out, prev_z) ==
    MoveBegin(IF out.extruding THEN extrude(P, TRUE) ELSE P,
              Target(out, "Z", prev_z), prev_z)

\* The loop takes a line with the centre button not the only one pressed:
\* parse_line, then for a command extrude(True) if it extrudes and move()
\* up to its wait.
TakeLine ==
    /\ pc = "loop"
    /\ \E buttons \in ButtonReads : ~StopPressed(buttons)
    /\ center_seen' = {}
    /\ remaining > 0
    /\ remaining' = remaining - 1
    /\ \E s \in Scanned :
         LET r == parse_line(s.tok, last_e_value)
             P0 == [ThePrinter EXCEPT !.trace = <<>>]
         IN  /\ Parsed(s)
             /\ IF r.raised
                THEN pc' = "raised" /\ Becomes(P0)
                ELSE IF r.out.some
                THEN /\ pc' = "wait"
                     /\ Becomes(ExecuteBegin(P0, r.out, current_z))
                ELSE pc' = "next" /\ Becomes(P0)
    /\ UNCHANGED <<ghostVars, current_x, current_y, current_z, homing>>

\* the loop goes on to the next line instead of leaving
Stop_Continue ==
    /\ pc = "loop"
    /\ \E buttons \in ButtonReads :
         StopPressed(buttons) /\ center_seen' = buttons
    /\ remaining > 0
    /\ remaining' = remaining - 1
    /\ pc' = "loop"
    /\ UNCHANGED <<procVars, ghostVars, current_x, current_y, current_z,
                   extruding, e_motor, x_motor, y_motor, z_motor, trace,
                   homing>>

\* The loop finds the centre button the only one pressed: "Stopped.", and
\* once no button is pressed any more, break.
Stop ==
    /\ pc = "loop"
    /\ \E buttons \in ButtonReads :
         StopPressed(buttons) /\ center_seen' = buttons
    /\ remaining > 0
    /\ remaining' = remaining - 1
    /\ pc' = "final"
    /\ UNCHANGED <<procVars, ghostVars, current_x, current_y, current_z,
                   extruding, e_motor, x_motor, y_motor, z_motor, trace,
                   homing>>

\* the wait goes on whatever the motors and the buttons say
WaitOver_NoWait(xm, ym, buttons) == TRUE

\* the while loop of move() is left: X and Y both done (the buttons are not
\* read then) or the centre button among the buttons pressed
WaitOver(xm, ym, buttons) == (xm.done /\ ym.done) \/ CenterPressed(buttons)

\* what one round of the while loop reads: the buttons only if X or Y is
\* still running ("and" reads its right side only then)
WaitReads(xm, ym) == IF xm.done /\ ym.done THEN { {} } ELSE ButtonReads

\* the position of an axis is updated only if its motor got a command
FinishLine_IfCommanded ==
    /\ pc = "wait"
    /\ \E buttons \in WaitReads(x_motor, y_motor) :
         /\ WaitOver(x_motor, y_motor, buttons)
         /\ center_seen' = IF x_motor.done /\ y_motor.done THEN center_seen
                            ELSE buttons
         /\ LET tx == Target(parsed_output, "X", current_x)
                ty == Target(parsed_output, "Y", current_y)
                tz == Target(parsed_output, "Z", current_z)
                P1 == MoveEnd(ThePrinter, tx, ty, tz, current_x, current_y,
                              current_z, parsed_output.command)
                P2 == IF ~parsed_output.extruding THEN extrude(P1, FALSE)
                      ELSE P1
            IN  /\ Becomes(P2)
                /\ current_x' = IF P2.x_motor = x_motor THEN current_x ELSE tx
                /\ current_y' = IF P2.y_motor = y_motor THEN current_y ELSE ty
                /\ current_z' = tz
    /\ pc' = "next"
    /\ UNCHANGED <<procVars, ghostVars, remaining, homing>>

\* move() leaves its wait, the X and Y motors done or the centre button
\* pressed, and runs to its end; extrude(False) if the line does not
\* extrude; the position is updated.
FinishLine ==
    /\ pc = "wait"
    /\ \E buttons \in WaitReads(x_motor, y_motor) :
         /\ WaitOver(x_motor, y_motor, buttons)
         /\ center_seen' = IF x_motor.done /\ y_motor.done THEN center_seen
                            ELSE buttons
         /\ LET tx == Target(parsed_output, "X", current_x)
                ty == Target(parsed_output, "Y", current_y)
                tz == Target(parsed_output, "Z", current_z)
                P1 == MoveEnd(ThePrinter, tx, ty, tz, current_x, current_y,
                              current_z, parsed_output.command)
                P2 == IF ~parsed_output.extruding THEN extrude(P1, FALSE)
                      ELSE P1
            IN  /\ Becomes(P2)
                /\ current_x' = tx /\ current_y' = ty /\ current_z' = tz
    /\ pc' = "next"
    /\ UNCHANGED <<procVars, ghostVars, remaining, homing>>

\* back to the head of the loop
NextLine ==
    /\ pc = "next"
    /\ pc' = "loop"
    /\ scan' = NoScan
    /\ parsed_output' = NoOutput
    /\ prev_e' = last_e_value
    /\ trace' = <<>>
    /\ UNCHANGED <<last_e_value, ghostVars, remaining, current_x, current_y,
                   current_z, extruding, e_motor, x_motor, y_motor, z_motor,
                   center_seen,
                   homing>>

\* the lines are used up
EndOfFile ==
    /\ pc = "loop"
    /\ remaining = 0
    /\ pc' = "final"
    /\ UNCHANGED <<procVars, ghostVars, jobVars>>

\* the loop left without the extruder being switched off
FinalExtrude_Omitted ==
    /\ pc = "final"
    /\ pc' = "present"
    /\ UNCHANGED <<procVars, ghostVars, jobVars>>

\* after the loop: printer.extrude(False)
FinalExtrude ==
    /\ pc = "final"
    /\ Becomes(extrude(ThePrinter, FALSE))
    /\ pc' = "present"
    /\ UNCHANGED <<procVars, ghostVars, remaining, current_x, current_y,
                   current_z, center_seen,
                   homing>>

\* present_print: brake X, Y and Z, lift Z, X to zero, Y to its limit
PresentPrint ==
    /\ pc = "present"
    /\ x_motor' = [target |-> 0, angle |-> 0, done |-> TRUE]
    /\ y_motor' = [target |-> y_limit_degrees, angle |-> y_limit_degrees,
                   done |-> TRUE]
    /\ z_motor' = IF z_motor + ZLift < z_limit_degrees THEN z_motor + ZLift
                  ELSE z_limit_degrees
    /\ pc' = "done"
    /\ UNCHANGED <<procVars, ghostVars, remaining, current_x, current_y,
                   current_z, extruding, e_motor, trace, center_seen,
                   homing>>

\* a motor started with wait=False reaches its target
XDone ==
    /\ ~x_motor.done
    /\ x_motor' = [x_motor EXCEPT !.angle = x_motor.target, !.done = TRUE]
    /\ UNCHANGED <<procVars, ghostVars, pc, remaining, current_x, current_y,
                   current_z, extruding, e_motor, y_motor, z_motor, trace,
                   center_seen,
                   homing>>

YDone ==
    /\ ~y_motor.done
    /\ y_motor' = [y_motor EXCEPT !.angle = y_motor.target, !.done = TRUE]
    /\ UNCHANGED <<procVars, ghostVars, pc, remaining, current_x, current_y,
                   current_z, extruding, e_motor, x_motor, z_motor, trace,
                   center_seen,
                   homing>>

Next ==
    \/ PrimeExtruder
    \/ Home
    \/ TakeLine
    \/ Stop
    \/ FinishLine
    \/ NextLine
    \/ EndOfFile
    \/ FinalExtrude
    \/ PresentPrint
    \/ XDone
    \/ YDone

Spec == Init /\ [][Next]_vars

----------------------------------------------------------------------------
(* The job loop over the commands parse_line can return, whatever the file *)
(* that makes it return them: the extruder and the motion of the printer.  *)

\* the X, Y and Z a command can hold, in hundredths of a millimetre
AxisValues == [X |-> {3, 300}, Y |-> {4, 400}, Z |-> {10, 100, 200}]

\* the parsed_data of G0/G1 lines with these values: any of the axes, with
\* E above the watermark or not
Commands ==
    { [some |-> TRUE, command |-> c, extruding |-> e, axes |-> ax] :
        c \in { <<"G", "0">>, <<"G", "1">> }, e \in BOOLEAN,
        ax \in UNION { { f \in [A -> {3, 4, 10, 100, 200, 300, 400}] :
                           \A a \in A : f[a] \in AxisValues[a] } :
                       A \in SUBSET {"X", "Y", "Z"} } }

\* the printer homed and the loop about to take the first line
InitMove ==
    /\ last_e_value = 0
    /\ scan = NoScan
    /\ parsed_output = NoOutput
    /\ prev_e = 0
    /\ before = NoG92
    /\ seen_e = [any |-> FALSE, max |-> 0]
    /\ high_e = 0
    /\ pc = "loop"
    /\ JobIdle

\* The loop takes a line with the centre button not the only one pressed
\* and parse_line returns a command, or nothing, for it: extrude(True) if
\* the command extrudes, and move() up to its wait.
TakeCommand ==
    /\ pc = "loop"
    /\ \E buttons \in ButtonReads : ~StopPressed(buttons)
    /\ center_seen' = {}
    /\ remaining > 0
    /\ remaining' = remaining - 1
    /\ \E out \in Commands \cup {NoOutput} :
         LET P0 == [ThePrinter EXCEPT !.trace = <<>>]
         IN  /\ parsed_output' = out
             /\ IF out.some
                THEN /\ pc' = "wait"
                     /\ Becomes(ExecuteBegin(P0, out, current_z))
                ELSE pc' = "next" /\ Becomes(P0)
    /\ UNCHANGED <<last_e_value, scan, prev_e, ghostVars, current_x,
                   current_y, current_z, homing>>

NextMove ==
    \/ TakeCommand
    \/ Stop
    \/ FinishLine
    \/ NextLine
    \/ EndOfFile
    \/ FinalExtrude
    \/ PresentPrint
    \/ XDone
    \/ YDone

SpecMove == InitMove /\ [][NextMove]_vars

----------------------------------------------------------------------------
(* The job loop over short X steps beside a long Y stroke: the moves at    *)
(* the thresholds of move().                                               *)

\* X 0.25 mm and 0.31 mm (2 and 3 degrees of the X motor), Y 20 mm
SlowAxisValues == [X |-> {25, 31}, Y |-> {2000}]

\* the parsed_data of G0/G1 lines with these values
SlowCommands ==
    { [some |-> TRUE, command |-> c, extruding |-> e, axes |-> ax] :
        c \in { <<"G", "0">>, <<"G", "1">> }, e \in BOOLEAN,
        ax \in UNION { { f \in [A -> {25, 31, 2000}] :
                           \A a \in A : f[a] \in SlowAxisValues[a] } :
                       A \in SUBSET {"X", "Y"} } }

\* The loop takes a line with the centre button not the only one pressed
\* and parse_line returns one of these commands, or nothing, for it.
TakeSlow ==
    /\ pc = "loop"
    /\ \E buttons \in ButtonReads : ~StopPressed(buttons)
    /\ center_seen' = {}
    /\ remaining > 0
    /\ remaining' = remaining - 1
    /\ \E out \in SlowCommands \cup {NoOutput} :
         LET P0 == [ThePrinter EXCEPT !.trace = <<>>]
         IN  /\ parsed_output' = out
             /\ IF out.some
                THEN /\ pc' = "wait"
                     /\ Becomes(ExecuteBegin(P0, out, current_z))
                ELSE pc' = "next" /\ Becomes(P0)
    /\ UNCHANGED <<last_e_value, scan, prev_e, ghostVars, current_x,
                   current_y, current_z, homing>>

NextSlow ==
    \/ TakeSlow
    \/ Stop
    \/ FinishLine
    \/ NextLine
    \/ EndOfFile
    \/ FinalExtrude
    \/ PresentPrint
    \/ XDone
    \/ YDone

SpecSlow == InitMove /\ [][NextSlow]_vars

----------------------------------------------------------------------------
(* Printer.home: its statements in their order, the motors they drive and  *)
(* the sensors they wait for. Angles are in hundredths of a degree, taken  *)
(* from the point where the sensor of the axis makes contact; a negative   *)
(* speed drives towards the sensor.                                        *)

Motors == {"X", "Y", "Z"}

\* self.z_speed
z_speed == 1000

\* the offsets set at the head of home()
Z_offset_up == 1800

X_offset == 29000

Y_offset == 0

Z_offset_down == -1125

\* one statement of home(): a call on a motor, the wait for its sensor, or
\* a pause
Step(motor, op, speed, amount) ==
    [motor |-> motor, op |-> op, speed |-> speed, amount |-> amount]

\* both seeks at the same speed
home_xy_OneSpeed(motor) ==
    << Step(motor, "run", -((5 * xy_speed) \div 2), 0),
       Step(motor, "until_pressed", 0, 0),
       Step(motor, "brake", 0, 0),
       Step(motor, "run_angle", xy_speed, 4500),
       Step(motor, "run", -((5 * xy_speed) \div 2), 0),
       Step(motor, "until_pressed", 0, 0),
       Step(motor, "hold", 0, 0) >>

\* home_xy(motor, sensor): towards the sensor at 2.5 xy_speed until it is
\* pressed, brake, back by 45 degrees, towards the sensor at 0.5 xy_speed
\* until it is pressed, hold
home_xy(motor) ==
    << Step(motor, "run", -((5 * xy_speed) \div 2), 0),
       Step(motor, "until_pressed", 0, 0),
       Step(motor, "brake", 0, 0),
       Step(motor, "run_angle", xy_speed, 4500),
       Step(motor, "run", -(xy_speed \div 2), 0),
       Step(motor, "until_pressed", 0, 0),
       Step(motor, "hold", 0, 0) >>

\* home_z(motor, sensor): the same with z_speed, 8 degrees and 0.25 z_speed
home_z(motor) ==
    << Step(motor, "run", -z_speed, 0),
       Step(motor, "until_pressed", 0, 0),
       Step(motor, "brake", 0, 0),
       Step(motor, "run_angle", z_speed, 800),
       Step(motor, "run", -(z_speed \div 4), 0),
       Step(motor, "until_pressed", 0, 0),
       Step(motor, "hold", 0, 0) >>

\* an offset of 0 leaves the zero of the motor where it was
offset_OnlyIfMoved(motor, angle, speed) ==
    IF angle /= 0
    THEN << Step(motor, "run_angle", speed, angle),
            Step(motor, "wait", 0, 500),
            Step(motor, "reset_angle", 0, 0),
            Step(motor, "stop", 0, 0) >>
    ELSE << Step(motor, "stop", 0, 0) >>

\* offset(motor, offset, speed): the blocking run_angle and the pause of
\* 500 ms unless the offset is 0, then reset_angle(0) and stop
offset(motor, angle, speed) ==
    (IF angle /= 0
     THEN << Step(motor, "run_angle", speed, angle),
             Step(motor, "wait", 0, 500) >>
     ELSE << >>)
        \o << Step(motor, "reset_angle", 0, 0), Step(motor, "stop", 0, 0) >>

\* X and Y are offset with Z still on the bed
home_XYBeforeRaise ==
    home_xy("X") \o home_xy("Y") \o home_z("Z")
        \o offset("X", X_offset, xy_speed)
        \o offset("Y", Y_offset, xy_speed)
        \o offset("Z", Z_offset_up, z_speed)
        \o offset("Z", Z_offset_down, z_speed)

\* the body of home(): the three homing sequences, then the four offsets
home ==
    home_xy("X") \o home_xy("Y") \o home_z("Z")
        \o offset("Z", Z_offset_up, z_speed)
        \o offset("X", X_offset, xy_speed)
        \o offset("Y", Y_offset, xy_speed)
        \o offset("Z", Z_offset_down, z_speed)

\* where an axis can stand when home() is called: on its sensor or 90
\* degrees from it
StartPositions == {0, 9000}

\* the seek is also left on the centre button
SeekOver_OrCenter(h, motor) ==
    (h.pos[motor] <= 0 /\ motor \in h.works) \/ CenterPressed(h.pressed)

\* sensor.pressed(), the exit of "while not sensor.pressed(): wait(5)": the
\* axis is on its sensor and the sensor reports it
SeekOver(h, motor) == h.pos[motor] <= 0 /\ motor \in h.works

\* motor.angle() when home() returns, in degrees
HomedAngle(h, motor) == TruncDiv(h.pos[motor] - h.zero[motor], 100)

\* everything but the homing
aroundHome ==
    <<procVars, ghostVars, pc, remaining, current_x, current_y, current_z,
      extruding, e_motor, x_motor, y_motor, z_motor, trace, center_seen>>

\* home() is called: each axis somewhere, each sensor working or not, no
\* button pressed
InitHome ==
    /\ last_e_value = 0
    /\ scan = NoScan
    /\ parsed_output = NoOutput
    /\ prev_e = 0
    /\ before = NoG92
    /\ seen_e = [any |-> FALSE, max |-> 0]
    /\ high_e = 0
    /\ pc = "home"
    /\ remaining = MaxLines
    /\ current_x = 0 /\ current_y = 0 /\ current_z = 0
    /\ extruding = FALSE
    /\ e_motor = "released"
    /\ x_motor = AtRest /\ y_motor = AtRest
    /\ z_motor = 0
    /\ trace = <<>>
    /\ center_seen = {}
    /\ \E start \in [Motors -> StartPositions], works \in SUBSET Motors :
         homing = [at |-> 1, log |-> << >>, pos |-> start, zero |-> start,
                   speed |-> [m \in Motors |-> 0], works |-> works,
                   pressed |-> {}]

\* the statement home() is at
AtStep == home[homing.at]

\* home() is at a statement with one of these names
HomeAt(ops) ==
    pc = "home" /\ homing.at <= Len(home) /\ AtStep.op \in ops

\* the statement is done: home() goes on to the next one
Advance(h) ==
    [h EXCEPT !.at = @ + 1,
              !.log = Append(@, [step |-> home[h.at],
                                 pos |-> h.pos[home[h.at].motor]])]

\* motor.run(speed)
HomeRun ==
    /\ HomeAt({"run"})
    /\ homing' = Advance([homing EXCEPT !.speed[AtStep.motor] = AtStep.speed])
    /\ UNCHANGED aroundHome

\* one round of "while not sensor.pressed(): wait(5)" with the sensor not
\* pressed: a motor driven towards its sensor comes to it
SeekWait ==
    /\ HomeAt({"until_pressed"})
    /\ ~SeekOver(homing, AtStep.motor)
    /\ homing' = [homing EXCEPT
                    !.pos[AtStep.motor] =
                        IF homing.speed[AtStep.motor] < 0 THEN 0 ELSE @]
    /\ UNCHANGED aroundHome

\* the sensor is pressed: the while loop is left
SeekContact ==
    /\ HomeAt({"until_pressed"})
    /\ SeekOver(homing, AtStep.motor)
    /\ homing' = Advance(homing)
    /\ UNCHANGED aroundHome

\* motor.brake(), motor.hold(), motor.stop()
HomeHalt ==
    /\ HomeAt({"brake", "hold", "stop"})
    /\ homing' = Advance([homing EXCEPT !.speed[AtStep.motor] = 0])
    /\ UNCHANGED aroundHome

\* motor.run_angle(speed, angle, wait=True): returns with the angle covered
HomeRunAngle ==
    /\ HomeAt({"run_angle"})
    /\ homing' = Advance([homing EXCEPT !.pos[AtStep.motor] = @ + AtStep.amount,
                                        !.speed[AtStep.motor] = 0])
    /\ UNCHANGED aroundHome

\* wait(500)
HomeWait ==
    /\ HomeAt({"wait"})
    /\ homing' = Advance(homing)
    /\ UNCHANGED aroundHome

\* motor.reset_angle(0)
HomeResetAngle ==
    /\ HomeAt({"reset_angle"})
    /\ homing' = Advance([homing EXCEPT
                            !.zero[AtStep.motor] = homing.pos[AtStep.motor]])
    /\ UNCHANGED aroundHome

\* home() returns, and main.py sets the position to (0, 0, 0)
HomeReturn ==
    /\ pc = "home" /\ homing.at = Len(home) + 1
    /\ pc' = "loop"
    /\ x_motor' = [target |-> 0, angle |-> HomedAngle(homing, "X"),
                   done |-> TRUE]
    /\ y_motor' = [target |-> 0, angle |-> HomedAngle(homing, "Y"),
                   done |-> TRUE]
    /\ z_motor' = HomedAngle(homing, "Z")
    /\ current_x' = 0 /\ current_y' = 0 /\ current_z' = 0
    /\ UNCHANGED <<procVars, ghostVars, remaining, extruding, e_motor, trace,
                   center_seen, homing>>

\* somebody presses or releases buttons while home() runs
PressButton ==
    /\ pc = "home"
    /\ \E buttons \in ButtonReads \ {homing.pressed} :
         homing' = [homing EXCEPT !.pressed = buttons]
    /\ UNCHANGED aroundHome

\* the statements of home(), which the program goes on running
HomeProgress ==
    \/ HomeRun
    \/ SeekWait
    \/ SeekContact
    \/ HomeHalt
    \/ HomeRunAngle
    \/ HomeWait
    \/ HomeResetAngle
    \/ HomeReturn

NextHome ==
    \/ HomeRun
    \/ SeekWait
    \/ SeekContact
    \/ HomeHalt
    \/ HomeRunAngle
    \/ HomeWait
    \/ HomeResetAngle
    \/ HomeReturn
    \/ PressButton

SpecHome == InitHome /\ [][NextHome]_vars

\* the same with the program never stopping of itself
SpecHomeFair == SpecHome /\ WF_vars(HomeProgress)

----------------------------------------------------------------------------
(* The line interpreter.                                                   *)

WrittenE(s) == s.written["E"]

HasE(s) == "E" \in DOMAIN s.written

WrittenAxes(s) == [a \in DOMAIN s.written \cap {"X", "Y", "Z"} |-> s.written[a]]

\* the result C1 gives for the line last fed
ExtrusionRule ==
    IF HasE(scan) /\ WrittenE(scan) > prev_e
    THEN parsed_output.extruding /\ last_e_value = WrittenE(scan)
    ELSE ~parsed_output.extruding /\ last_e_value = prev_e

\* C1: a G0/G1 line with a well-formed E above the watermark gives
\* extruding = true and moves the watermark to E; with E at or below the
\* watermark, or without E, extruding = false and the watermark stays.
C1_Watermark ==
    (pc = "fed" /\ IsMoveCmd(scan)) => (parsed_output.some /\ ExtrusionRule)

\* C1 on the lines without a malformed parameter
C1_OnCleanLines ==
    (pc = "fed" /\ IsMoveCmd(scan) /\ scan.bad = 0)
        => (parsed_output.some /\ ExtrusionRule)

\* C2: G92 with E sets the watermark to that E whatever it was, G92 without
\* E changes nothing, neither returns a command; so G1 E<v> right after
\* G92 E<v> does not extrude and G1 with a larger E does.
C2_G92Reset ==
    /\ (pc = "fed" /\ IsG92(scan)) =>
          /\ ~parsed_output.some
          /\ last_e_value = IF HasE(scan) THEN WrittenE(scan) ELSE prev_e
    /\ (pc = "fed" /\ IsMoveCmd(scan) /\ before.g92 /\ HasE(scan)) =>
          /\ WrittenE(scan) = before.e => ~parsed_output.extruding
          /\ WrittenE(scan) > before.e => parsed_output.extruding

\* C2 on the lines without a malformed parameter
C2_OnCleanLines ==
    /\ (pc = "fed" /\ IsG92(scan) /\ scan.bad = 0) =>
          /\ ~parsed_output.some
          /\ last_e_value = IF HasE(scan) THEN WrittenE(scan) ELSE prev_e
    /\ (pc = "fed" /\ IsMoveCmd(scan) /\ before.g92 /\ HasE(scan)
           /\ scan.bad = 0 /\ prev_e = before.e) =>
          /\ WrittenE(scan) = before.e => ~parsed_output.extruding
          /\ WrittenE(scan) > before.e => parsed_output.extruding

\* C3 as stated: the watermark is the highest E seen on the G0/G1/G92 lines
\* since the last G92 with E, or since the start.
C3_HighestSeen == seen_e.any => last_e_value = seen_e.max

\* C3, amended: the watermark is the highest of the baseline (0.0 at the
\* start, the E of the last G92 since) and the E parameters parse_line read
\* on the G0/G1 lines since the baseline was set.
C3_HighestSinceBaseline == last_e_value = high_e

\* a G1 E below the watermark was fed after a G1 had raised it
\* only E values below 0.0 were seen, and the watermark is the baseline
C3_Witness ==
    pc = "fed" /\ seen_e.any /\ seen_e.max < 0 /\ last_e_value = 0

\* C4: a G0/G1 line with one malformed parameter gives a command holding
\* every well-formed X/Y/Z/E of the line, before or after the malformed
\* one, and one warning.
C4_Lenient ==
    (pc = "fed" /\ IsMoveCmd(scan) /\ scan.bad = 1) =>
        /\ parsed_output.some
        /\ parsed_output.axes = WrittenAxes(scan)
        /\ ExtrusionRule
        /\ scan.tok.warnings = 1

\* the line in progress in the job loop
InLine == pc \in {"wait", "next"}

\* C5: a malformed parameter raises nothing to the caller: the G0/G1 line
\* still gives a move command and the job goes on to the next line.
C5_NonFatal ==
    /\ pc /= "raised"
    /\ (InLine /\ IsMoveCmd(scan) /\ scan.bad >= 1) => parsed_output.some

\* such a line has been executed and lines are left
C5_Witness ==
    /\ pc = "next" /\ IsMoveCmd(scan) /\ scan.bad >= 1
    /\ parsed_output.some /\ remaining > 0

\* C6: an empty, blank or comment-only line and a line of another command
\* return nothing and keep the watermark; the text after ';' changes
\* neither the result nor the watermark.
C6_NothingElse ==
    pc = "fed" =>
        /\ (scan.blank \/ ~(IsMoveCmd(scan) \/ IsG92(scan))) =>
              (~parsed_output.some /\ last_e_value = prev_e)
        /\ parse_line(scan.plain, prev_e)
             = [out |-> parsed_output, last_e |-> last_e_value,
                raised |-> FALSE]

\* a line that is all comment, the comment holding words, was fed with the
\* watermark above 0.0
C6_Witness ==
    pc = "fed" /\ scan.blank /\ scan.commented /\ prev_e > 0

----------------------------------------------------------------------------
(* The job loop and the printer.                                           *)

TargetZ == Target(parsed_output, "Z", current_z)

HasOp(tr, op) == \E i \in 1..Len(tr) : tr[i].op = op

CountOp(tr, op) == Cardinality({ i \in 1..Len(tr) : tr[i].op = op })

\* the step that executes a line leaves the position of the axes not among
\* axes as it was
AxesHeld(axes) ==
    (pc = "wait" /\ pc' = "next") =>
        /\ "X" \notin DOMAIN axes => current_x' = current_x
        /\ "Y" \notin DOMAIN axes => current_y' = current_y
        /\ "Z" \notin DOMAIN axes => current_z' = current_z

\* C7: the command holds exactly the X/Y/Z written on the line, and an axis
\* not in it keeps its believed position over the line.
C7_OnlyWrittenAxes ==
    /\ [](InLine /\ IsMoveCmd(scan) => parsed_output.axes = WrittenAxes(scan))
    /\ [][AxesHeld(WrittenAxes(scan))]_vars

\* C7 on the lines without a malformed parameter
C7_OnCleanLines ==
    /\ [](InLine /\ IsMoveCmd(scan) /\ scan.bad = 0
            => parsed_output.axes = WrittenAxes(scan))
    /\ [][AxesHeld(parsed_output.axes)]_vars

\* a step of the job loop, where extrude is called, runs each sequence as
\* often as the state changes
OncePerChange ==
    pc \in {"loop", "wait", "final"} =>
        /\ CountOp(trace', "engage") - CountOp(trace, "engage")
             = IF ~extruding /\ extruding' THEN 1 ELSE 0
        /\ CountOp(trace', "disengage") - CountOp(trace, "disengage")
             = IF extruding /\ ~extruding' THEN 1 ELSE 0
        /\ extruding' = extruding => e_motor' = e_motor

\* C8: over the calls of extrude, the engage sequence runs once for each
\* change from off to on and the disengage sequence once for each change
\* from on to off; a call for the state the extruder is in runs nothing and
\* changes nothing.
C8_Idempotent == [][OncePerChange]_vars

\* extrude(True) was called for a line with the extruder already on
C8_Witness ==
    /\ pc = "wait" /\ parsed_output.extruding /\ extruding
    /\ ~HasOp(trace, "engage")

\* C9: however the loop ends, extrude(False) is called before the job is
\* complete, and the extruder is off at its end.
C9_OffAtEnd ==
    pc \in {"present", "done"} => (~extruding /\ e_motor = "released")

\* the job is complete and the call after the loop had to switch it off
C9_Witness == pc = "done" /\ HasOp(trace, "disengage")

\* C10: when the target Z is above the previous Z, the Z motor is sent to
\* the target and has arrived before move() gives any X or Y command.
C10_RaiseFirst ==
    (pc = "wait" /\ TargetZ > current_z) =>
        (HasOp(trace, "Z") /\ z_motor = ZDegrees(TargetZ))

----------------------------------------------------------------------------
(* The motion of one line: Printer.move.                                   *)

TargetX == Target(parsed_output, "X", current_x)

TargetY == Target(parsed_output, "Y", current_y)

\* the step in which move() leaves its wait and runs to its end
MoveCompletes == pc = "wait" /\ pc' = "next"

IsXY(c) == c.op \in {"X", "Y"}

\* C11: when the target Z is below the previous Z, move() gives the Z
\* command only after its X/Y commands, never before them: none has been
\* given when move() waits for the X and Y motors.
C11_LowerLast ==
    (pc = "wait" /\ TargetZ < current_z) => ~HasOp(trace, "Z")

\* C12: when the target Z equals the previous Z, move() gives no Z command,
\* neither before its wait nor after it.
C12_NoZCommand ==
    /\ []((pc = "wait" /\ TargetZ = current_z) => ~HasOp(trace, "Z"))
    /\ [][(MoveCompletes /\ TargetZ = current_z) => ~HasOp(trace', "Z")]_vars

\* C13: without an abort signal, move() gives no X or Y command until X and
\* Y both report their earlier motion done: the first of them finds both
\* done, and none is given to a motor that is still running.
C13_Barrier ==
    (pc = "next" /\ center_seen = {}) =>
        \A i \in 1..Len(trace) :
            IsXY(trace[i]) =>
                /\ ~trace[i].running
                /\ (\A j \in 1..(i - 1) : ~IsXY(trace[j]))
                       => ~trace[i].xy_running

\* move() was entered with X or Y still running (its Z command or the
\* engage sequence before it found them so), waited, and gave its X or Y
\* command with both done
C13_Witness ==
    /\ pc = "next" /\ center_seen = {}
    /\ \E i, j \in 1..Len(trace) :
         /\ i < j
         /\ ~IsXY(trace[i]) /\ trace[i].xy_running
         /\ IsXY(trace[j]) /\ ~trace[j].xy_running

\* the XY displacement of the line in progress, squared (hundredths of a
\* millimetre; 0.05 mm squared is 25)
Displacement2 ==
    (TargetX - current_x) * (TargetX - current_x)
        + (TargetY - current_y) * (TargetY - current_y)

\* the velocity move() computes for the line in progress
LineVelocity ==
    MoveVelocity(TargetX, TargetY, current_x, current_y, parsed_output.command)

\* C14: for a move of less than 0.05 mm in XY the velocity is (0, 0) and
\* move() gives no X and no Y command, for G0 and for G1.
C14_DeadZone ==
    /\ []((pc = "wait" /\ Displacement2 < 25)
            => (LineVelocity.nx = 0 /\ LineVelocity.ny = 0))
    /\ [][(MoveCompletes /\ Displacement2 < 25)
            => (~HasOp(trace', "X") /\ ~HasOp(trace', "Y"))]_vars

\* a G0 to X 0.03 mm was executed from X 0 or X 0.03 (the X motor has never
\* left 0 degrees) with Y as it was, and no X or Y command was given
C14_Witness ==
    /\ pc = "next" /\ parsed_output.command = <<"G", "0">>
    /\ DOMAIN parsed_output.axes = {"X"} /\ parsed_output.axes["X"] = 3
    /\ current_x = 3 /\ x_motor.target = 0 /\ x_motor.done
    /\ ~HasOp(trace, "X") /\ ~HasOp(trace, "Y")

\* the speed S of C15
CruiseSpeed ==
    IF parsed_output.command = <<"G", "0">>
    THEN xy_speed * max_xy_speed_multiplier ELSE xy_speed

\* C15: for a displacement (dx, dy) of length d >= 0.05 mm with |dx| and
\* |dy| >= 0.05 mm the velocity is (S dx / d, S dy / d), S being the cruise
\* speed for G1 and three times it for G0: vx : vy = dx : dy,
\* vx^2 + vy^2 = S^2, and (0.6 S, 0.8 S) for (0, 0) -> (3, 4).
C15_Velocity ==
    LET dx == TargetX - current_x
        dy == TargetY - current_y
        v == LineVelocity
    IN  (pc = "wait" /\ Displacement2 >= 25 /\ Abs(dx) >= 5 /\ Abs(dy) >= 5) =>
            /\ v.nx = CruiseSpeed * dx
            /\ v.ny = CruiseSpeed * dy
            /\ v.d2 = dx * dx + dy * dy
            /\ v.nx * dy = v.ny * dx
            /\ (v.nx \div CruiseSpeed) * (v.nx \div CruiseSpeed)
                 + (v.ny \div CruiseSpeed) * (v.ny \div CruiseSpeed) = v.d2
            /\ (dx = 300 /\ dy = 400) =>
                  /\ 5 * v.nx = 3 * CruiseSpeed * Isqrt(v.d2)
                  /\ 5 * v.ny = 4 * CruiseSpeed * Isqrt(v.d2)
                  /\ Isqrt(v.d2) * Isqrt(v.d2) = v.d2

\* a G0 from (0, 0) to (3, 4) is in progress
C15_Witness ==
    /\ pc = "wait" /\ parsed_output.command = <<"G", "0">>
    /\ current_x = 0 /\ current_y = 0 /\ TargetX = 300 /\ TargetY = 400

\* the head of the loop goes on to parse a line
LineTaken == pc = "loop" /\ pc' \in {"wait", "next", "raised"}

\* C16 as stated: move() blocks until its move is complete, so when the
\* next line is parsed X and Y have completed the motion of the line before.
C16_BlocksUntilComplete ==
    [][LineTaken => (x_motor.done /\ y_motor.done)]_vars

\* C16, amended: move() returns with its X/Y commands given, and the next
\* line is parsed while they may still run; but the move of that line
\* leaves its wait, unless on the centre button, only with X and Y done, so
\* at most one XY move is outstanding.
C16_OneOutstanding ==
    [][(MoveCompletes /\ center_seen' = {}) => (x_motor.done /\ y_motor.done)]_vars

\* a line has been parsed and its move waits while the X motor still runs
\* for the line before
C16_Witness ==
    pc = "wait" /\ ~x_motor.done /\ center_seen = {}

----------------------------------------------------------------------------
(* Cancellation.                                                           *)

\* the head of the loop uses up a line: it takes it or it stops
AtLoopTop == pc = "loop" /\ remaining' < remaining

\* the loop has been left
JobOver == pc \in {"final", "present", "done"}

\* C17: when the check at the head of the loop finds the abort signal (the
\* centre button, alone), the loop is left: neither that line nor a later
\* one is parsed or executed, and no further move is made.
C17_StopsBetweenLines ==
    /\ [][(AtLoopTop /\ center_seen' = {"CENTER"}) =>
             /\ pc' = "final"
             /\ UNCHANGED <<procVars, current_x, current_y, current_z,
                            x_motor, y_motor, z_motor, trace>>]_vars
    /\ [][JobOver =>
             /\ JobOver'
             /\ UNCHANGED <<procVars, remaining, current_x, current_y,
                            current_z>>]_vars

\* the job is complete, stopped at the head of the loop with lines left
C17_Witness ==
    pc = "done" /\ center_seen = {"CENTER"} /\ remaining > 0

\* C18: once the wait of move() was left on the abort signal, no later line
\* is executed, whatever the buttons are at the next head of the loop.
C18_StopsInWait ==
    [][(pc = "loop" /\ center_seen /= {}) => ~LineTaken]_vars

\* C19: when the target Z is below the previous Z, the Z command move()
\* gives after its wait finds the X and Y motors done.
C19_LowerAfterTravel ==
    [][(MoveCompletes /\ TargetZ < current_z) =>
          \A i \in (Len(trace) + 1)..Len(trace') :
              trace'[i].op = "Z" => ~trace'[i].xy_running]_vars

\* C20: for a line that extrudes, the engage sequence is complete before
\* any X, Y or Z command of the line's move is given.
C20_EngageFirst ==
    /\ \A i, j \in 1..Len(trace) :
          (trace[i].op = "engage" /\ trace[j].op \in {"X", "Y", "Z"}) => i < j
    /\ (pc = "wait" /\ parsed_output.extruding)
          => (extruding /\ e_motor = "pressed")

\* a line that extrudes was executed with the extruder off before it: the
\* engage sequence, then the Z command, then the X command
C20_Witness ==
    /\ pc = "next" /\ Len(trace) >= 3
    /\ trace[1].op = "engage" /\ trace[2].op = "Z"
    /\ HasOp(trace, "X")

----------------------------------------------------------------------------
(* The extruder and the position over a line.                              *)

\* C21: for a line that does not extrude, taken with the extruder on, the
\* disengage sequence starts only once X and Y report the motion of that
\* line done.
C21_DisengageAfterMove ==
    (pc = "next" /\ ~parsed_output.extruding) =>
        \A i \in 1..Len(trace) :
            trace[i].op = "disengage" => ~trace[i].xy_running

\* a command to the axis is given in the step that ends move()
Issued(op) == CountOp(trace', op) > CountOp(trace, op)

\* C22: move() gives X (resp. Y) a run-to-target command if and only if the
\* velocity computed for that axis is above 2 in magnitude and the angle of
\* the motor is more than 2 degrees from the converted target; otherwise
\* the axis gets no command in that move and its motor is left as it is.
C22_Threshold ==
    [][MoveCompletes =>
          LET v == LineVelocity
          IN  /\ Issued("X") <=>
                     (Over2(v.nx, v.d2)
                        /\ Abs(x_motor.angle - XYDegrees(TargetX)) > 2)
              /\ Issued("Y") <=>
                     (Over2(v.ny, v.d2)
                        /\ Abs(y_motor.angle - XYDegrees(TargetY)) > 2)
              /\ Issued("X") => x_motor' = [target |-> XYDegrees(TargetX),
                                            angle |-> x_motor.angle,
                                            done |-> FALSE]
              /\ ~Issued("X") => x_motor' = x_motor
              /\ ~Issued("Y") => y_motor' = y_motor]_vars

\* a G1 to (0.31, 20) mm was executed from (0, 0): X, 3 degrees away but
\* at a speed of 1.39, got no command while Y got one
C22_Witness ==
    /\ pc = "next" /\ parsed_output.command = <<"G", "1">>
    /\ current_x = 31 /\ current_y = 2000
    /\ x_motor.angle = 0 /\ x_motor.target = 0
    /\ ~HasOp(trace, "X") /\ HasOp(trace, "Y")

\* C23: after every executed G0/G1 line the believed position is the target
\* the line asked for, from the return of move() on, whether or not a motor
\* got a command or has completed it, and nothing else moves it; the next
\* move's deltas are taken from it, so a line that asks for the believed
\* position again commands nothing, wherever the motors are.
C23_Believed ==
    /\ [][MoveCompletes =>
             /\ current_x' = TargetX /\ current_y' = TargetY
             /\ current_z' = TargetZ
             /\ (TargetX = current_x /\ TargetY = current_y)
                    => (~Issued("X") /\ ~Issued("Y"))]_vars
    /\ [][<<current_x, current_y, current_z>>' /= <<current_x, current_y, current_z>>
             => MoveCompletes]_vars

\* the position is believed at (0.31, 20) mm with the X motor at rest at 0
\* degrees, and a line to X 0.31 has been executed without a command
C23_Witness ==
    /\ pc = "next" /\ current_x = 31 /\ current_y = 2000
    /\ x_motor = [target |-> 0, angle |-> 0, done |-> TRUE]
    /\ DOMAIN parsed_output.axes = {"X"} /\ parsed_output.axes["X"] = 31
    /\ trace = <<>> /\ y_motor.angle = XYDegrees(2000)

----------------------------------------------------------------------------
(* Homing.                                                                 *)

\* the statements home() has run, each with the place its motor was at
\* when it was done
HomeLog == homing.log

\* an earlier entry of the log than the i-th names this motor and statement
DoneBefore(i, motor, op) ==
    \E j \in 1..(i - 1) :
        HomeLog[j].step.motor = motor /\ HomeLog[j].step.op = op

\* the order of the axes and, for one axis, of the statements of its four
\* phases: CoarseSeek (1, 2), BackOff (3, 4), FineSeek (5, 6), Zeroed (7)
AxisOrder == <<"X", "Y", "Z">>

PhaseOps ==
    <<"run", "until_pressed", "brake", "run_angle", "run", "until_pressed",
      "hold">>

\* C24: home() takes X, then Y, then Z through CoarseSeek (towards the
\* sensor until contact), BackOff (brake, then a blocking withdrawal by a
\* fixed angle the other way), FineSeek (towards the sensor at a strictly
\* lower speed until contact) and Zeroed (hold), in this order, no phase
\* left out or repeated, and no axis begins before the one before it is
\* Zeroed.
C24_Phases ==
    \A i \in 1..Len(HomeLog) :
        LET e == HomeLog[i]
            k == ((i - 1) \div Len(PhaseOps)) + 1
            j == ((i - 1) % Len(PhaseOps)) + 1
        IN  k <= Len(AxisOrder) =>
              /\ e.step.motor = AxisOrder[k]
              /\ e.step.op = PhaseOps[j]
              /\ j = 1 => e.step.speed < 0
              /\ j \in {2, 6} => e.pos = 0
              /\ j = 4 => (e.step.speed > 0 /\ e.step.amount > 0
                             /\ e.pos = e.step.amount)
              /\ j = 5 => (e.step.speed < 0
                             /\ e.step.speed > HomeLog[i - 4].step.speed)
              /\ j = 7 => (homing.speed[AxisOrder[k]] = 0
                             /\ (i = Len(HomeLog) => homing.pos[AxisOrder[k]] = 0))

\* the three axes have gone through their phases, Y and Z from 90 degrees
\* off their sensors and X from on its sensor, and no offset has begun
C24_Witness ==
    /\ pc = "home"
    /\ Len(HomeLog) = Len(AxisOrder) * Len(PhaseOps)
    /\ homing.zero = [m \in Motors |-> IF m = "X" THEN 0 ELSE 9000]

\* the i-th entry of the log belongs to an offset: a pause, a reset or a
\* stop, or a run_angle on a motor that has been held
OffsetEntry(i) ==
    \/ HomeLog[i].step.op \in {"wait", "reset_angle", "stop"}
    \/ /\ HomeLog[i].step.op = "run_angle"
       /\ DoneBefore(i, HomeLog[i].step.motor, "hold")

\* the i-th entry is the motion of an offset of Z, upwards or downwards
ZMotion(i, up) ==
    /\ OffsetEntry(i)
    /\ HomeLog[i].step.op = "run_angle" /\ HomeLog[i].step.motor = "Z"
    /\ (HomeLog[i].step.amount > 0) = up

\* C25: the offsets begin only when the three axes are Zeroed, and run in
\* the order raise Z, offset X, offset Y, lower Z: Z is raised and stopped
\* before anything of the X and Y offsets, and Z is lowered only with the
\* X and Y offsets complete.
C25_OffsetOrder ==
    /\ \A i \in 1..Len(HomeLog) :
          LET e == HomeLog[i]
          IN  /\ OffsetEntry(i) => \A m \in Motors : DoneBefore(i, m, "hold")
              /\ (OffsetEntry(i) /\ e.step.motor \in {"X", "Y"}) =>
                    /\ \E r \in 1..(i - 1) :
                          /\ ZMotion(r, TRUE) /\ HomeLog[r].pos = Z_offset_up
                          /\ \E t \in (r + 1)..(i - 1) :
                                HomeLog[t].step = Step("Z", "stop", 0, 0)
                    /\ \A l \in 1..(i - 1) : ~ZMotion(l, FALSE)
                    /\ i = Len(HomeLog) =>
                          (homing.pos["Z"] = Z_offset_up
                             /\ homing.speed["Z"] = 0)
              /\ (OffsetEntry(i) /\ e.step.motor = "Y") =>
                    /\ DoneBefore(i, "X", "reset_angle")
                    /\ DoneBefore(i, "X", "stop")
              /\ ZMotion(i, FALSE) =>
                    /\ DoneBefore(i, "X", "stop") /\ DoneBefore(i, "Y", "stop")
                    /\ i = Len(HomeLog) =>
                          (homing.pos["X"] = X_offset
                             /\ homing.pos["Y"] = Y_offset)
    /\ pc = "loop" =>
          \E r, x, y, l \in 1..Len(HomeLog) :
              /\ r < x /\ x < y /\ y < l
              /\ ZMotion(r, TRUE) /\ ZMotion(l, FALSE)
              /\ OffsetEntry(x) /\ HomeLog[x].step.motor = "X"
              /\ OffsetEntry(y) /\ HomeLog[y].step.motor = "Y"

\* Z has just been lowered, with the X and Y offsets behind
C25_Witness ==
    /\ pc = "home" /\ Len(HomeLog) > 0
    /\ ZMotion(Len(HomeLog), FALSE)
    /\ homing.zero["X"] = X_offset

\* the offset asked of a motor by the i-th entry, a reset_angle: the one of
\* X, of Y, and for Z the raise at the first reset and the lowering at the
\* second
OffsetAsked(i) ==
    LET m == HomeLog[i].step.motor
    IN  IF m = "X" THEN X_offset
        ELSE IF m = "Y" THEN Y_offset
        ELSE IF DoneBefore(i, "Z", "reset_angle") THEN Z_offset_down
        ELSE Z_offset_up

\* C26: an offset other than 0 is motion, then the pause, then the reset of
\* the zero of the axis; an offset of 0 is the reset alone, without motion
\* or pause. When home() has returned the three angles read 0, and from
\* the place of the contact of the fine seek the zero lies at X_offset for
\* X, Y_offset for Y and Z_offset_up + Z_offset_down for Z.
C26_Offsets ==
    /\ \A i \in 1..Len(HomeLog) :
          HomeLog[i].step.op = "reset_angle" =>
              LET m == HomeLog[i].step.motor
              IN  IF OffsetAsked(i) /= 0
                  THEN /\ HomeLog[i - 2].step.motor = m
                       /\ HomeLog[i - 2].step.op = "run_angle"
                       /\ HomeLog[i - 2].step.amount = OffsetAsked(i)
                       /\ HomeLog[i - 1].step = Step(m, "wait", 0, 500)
                       /\ HomeLog[i].pos = HomeLog[i - 2].pos
                  ELSE /\ HomeLog[i - 1].step.motor /= m
                       /\ \A j \in 1..(i - 1) :
                             (HomeLog[j].step.motor = m /\ OffsetEntry(j))
                                 => HomeLog[j].step.op \notin {"run_angle", "wait"}
    /\ pc = "loop" =>
          /\ x_motor.angle = 0 /\ y_motor.angle = 0 /\ z_motor = 0
          /\ homing.pos = homing.zero
          /\ homing.zero["X"] = X_offset
          /\ homing.zero["Y"] = Y_offset
          /\ homing.zero["Z"] = Z_offset_up + Z_offset_down
          /\ \A m \in Motors : \E i \in 1..Len(HomeLog) :
                HomeLog[i].step = Step(m, "reset_angle", 0, 0)

\* home() has returned, no button having been touched at the end, with
\* the reset of Y right after the stop of X
C26_Witness ==
    /\ pc = "loop" /\ homing.pressed = {}
    /\ \E i \in 2..Len(HomeLog) :
          /\ HomeLog[i].step = Step("Y", "reset_angle", 0, 0)
          /\ HomeLog[i - 1].step = Step("X", "stop", 0, 0)

\* the waits for a sensor that home() has left
SeeksLeft ==
    { i \in 1..Len(HomeLog) : HomeLog[i].step.op = "until_pressed" }

\* C27: home() returns if and only if each of its six seeks comes to see
\* its sensor pressed: with the three sensors reporting contact it
\* returns, whatever the buttons; with a sensor that never does it waits
\* for ever; a seek is left on contact alone, and an abort signal neither
\* cuts home() short nor holds it up.
C27_Terminates ==
    /\ (homing.works = Motors) => <>(pc = "loop")
    /\ [](homing.works /= Motors => pc = "home")
    /\ [](\A i \in SeeksLeft :
             HomeLog[i].pos = 0 /\ HomeLog[i].step.motor \in homing.works)
    /\ [](pc = "loop" =>
             (Cardinality(SeeksLeft) = 6 /\ homing.works = Motors))
    /\ [][homing.pressed' /= homing.pressed
            => (UNCHANGED <<pc, x_motor, y_motor, z_motor>>
                  /\ homing' = [homing EXCEPT !.pressed = homing.pressed'])]_vars

\* home() has returned with the centre button pressed on the way
C27_Witness ==
    pc = "loop" /\ CenterPressed(homing.pressed) /\ homing.at = Len(home) + 1

----------------------------------------------------------------------------
(* The X and Y commands of a job against the motors.                       *)

\* the motor is given something new to do in this step: it changes, and
\* not by coming to its target
Superseded(m, n) ==
    n /= m /\ n /= [m EXCEPT !.angle = m.target, !.done = TRUE]

\* C28: in a job that is not aborted no X or Y command, the brake of
\* present_print included, comes to a motor that has not completed the
\* command before it.
C28_CompletesFirst ==
    [][(center_seen = {} /\ center_seen' = {}) =>
          /\ Superseded(x_motor, x_motor') => x_motor.done
          /\ Superseded(y_motor, y_motor') => y_motor.done]_vars

\* C29: after executed moves without abort, once X and Y report done, the
\* last target commanded to each of them is within 2 degrees of the
\* converted believed position: the moves left out by the dead zone or by
\* the thresholds open no larger gap.
C29_NoDrift ==
    (pc \in {"loop", "wait", "next"} /\ center_seen = {}
         /\ x_motor.done /\ y_motor.done) =>
        /\ Abs(x_motor.target - XYDegrees(current_x)) <= 2
        /\ Abs(y_motor.target - XYDegrees(current_y)) <= 2

----------------------------------------------------------------------------
(* The flag of the extruder.                                               *)

\* the extruder sequences among the commands of the line, in their order
Sequences(tr) == SelectSeq(tr, LAMBDA c : c.op \in {"engage", "disengage"})

\* C30: with no extruder sequence in progress, Printer.extruding is True
\* exactly when the last sequence run on the extruder motor was the engage
\* sequence: after __init__, where none has run, after prime_extruder on
\* either branch, and after any calls of extrude().
C30_FlagMatches ==
    /\ pc = "prime" => ~extruding
    /\ pc /= "prime" => (extruding <=> e_motor = "pressed")
    /\ Sequences(trace) /= << >> =>
          (extruding <=>
               Sequences(trace)[Len(Sequences(trace))].op = "engage")

\* the loop is over, left with the extruder on, and the call of
\* extrude(False) after it has run the disengage sequence
C30_Witness ==
    /\ pc = "present" /\ ~extruding /\ e_motor = "released"
    /\ Len(Sequences(trace)) = 1 /\ trace[Len(trace)].op = "disengage"

----------------------------------------------------------------------------
(* The extruder against the travel moves, and the two abort checks.        *)

\* C31: the extruder is never on while X or Y runs the motion of a line
\* that does not extrude. The engage sequence of a line, run with the
\* extruder off and so after a line that did not extrude, finds X and Y
\* done with that line's motion; and the disengage sequence of a line
\* that does not extrude is not left to run, the extruder still on, with
\* X or Y already under way on that line's motion.
C31_NoLayingInTravel ==
    /\ pc = "wait" =>
          \A i \in 1..Len(trace) :
              trace[i].op = "engage" => ~trace[i].xy_running
    /\ (pc = "next" /\ ~parsed_output.extruding) =>
          \A i, j \in 1..Len(trace) :
              (IsXY(trace[i]) /\ trace[j].op = "disengage") => j < i

\* C32: every set of buttons on which the wait of move() is left early is
\* one on which the check at the head of the loop stops the job.
C32_ChecksAgree ==
    \A buttons \in ButtonReads :
        (pc = "next" /\ center_seen = buttons /\ CenterPressed(buttons))
            => StopPressed(buttons)

=============================================================================
